---- MODULE Spec2Model ----
(***************************************************************************)
(* Model of the k9s watch Factory (package watch), the access-review loop  *)
(* of the API client (package client) and the string helpers toGVR and     *)
(* namespaced.                                                             *)
(*                                                                         *)
(* A Go string is a sequence of atoms: the atom "/" is the separator       *)
(* character, every other atom is a separator-free piece of text.  The     *)
(* empty Go string is the empty sequence.                                  *)
(***************************************************************************)
EXTENDS Integers, Sequences, FiniteSets, TLC

VARIABLES
    factories,   \* Factory.factories: scope key -> reference (index in facs)
    facs,        \* every informer factory constructed so far, by reference
    stopChan,    \* Factory.stopChan: "chan" (the channel of NewFactory) or "nil"
    chanClosed,  \* whether the channel made by NewFactory has been closed
    activeNS,    \* Factory.activeNS
    forwarders,  \* Factory.forwarders: path -> session
    sessState,   \* state of every forward session: "Running" or "Stopped"
    waiter,      \* position of the caller blocked in WaitForCacheSync
    panicked,    \* the process has aborted with a Go panic
    last,        \* the last foreground operation, its inputs and its results
    pcall,       \* the last call of a pure helper: function, input, output
    callers      \* position of each goroutine running inside ensureFactory

vars == <<factories, facs, stopChan, chanClosed, activeNS, forwarders,
          sessState, waiter, panicked, last, pcall, callers>>

factoryVars == <<factories, facs, stopChan, chanClosed, activeNS, forwarders,
                 sessState, waiter, panicked, last, callers>>

----------------------------------------------------------------------------
(* Bounds *)

\* longest input string (in atoms) given to the pure helpers
MaxLen == 5
\* longest verb list given to CanI
MaxVerbs == 3
\* informer factories constructed over the life of one Factory
MaxFactories == 2

----------------------------------------------------------------------------
(* Strings *)

Slash == "/"

\* index of the first separator of s, 0 when there is none
IndexOfSep(s) ==
    IF \E i \in 1..Len(s) : s[i] = Slash
    THEN CHOOSE i \in 1..Len(s) : s[i] = Slash /\ \A j \in 1..(i-1) : s[j] # Slash
    ELSE 0

\* index of the last separator of s, 0 when there is none
LastIndexOfSep(s) ==
    IF \E i \in 1..Len(s) : s[i] = Slash
    THEN CHOOSE i \in 1..Len(s) : s[i] = Slash /\ \A j \in (i+1)..Len(s) : s[j] # Slash
    ELSE 0

\* strings.Split(s, "/")
RECURSIVE Split(_)
Split(s) ==
    LET i == IndexOfSep(s)
    IN  IF i = 0 THEN <<s>>
        ELSE <<SubSeq(s, 1, i-1)>> \o Split(SubSeq(s, i+1, Len(s)))

\* strings.Trim(s, "/")
RECURSIVE TrimLeft(_)
TrimLeft(s) == IF s # <<>> /\ Head(s) = Slash THEN TrimLeft(Tail(s)) ELSE s

RECURSIVE TrimRight(_)
TrimRight(s) ==
    IF s # <<>> /\ s[Len(s)] = Slash THEN TrimRight(SubSeq(s, 1, Len(s)-1)) ELSE s

Trim(s) == TrimRight(TrimLeft(s))

\* path.Split(n): the directory part keeps its final separator
PathSplit(n) ==
    LET i == LastIndexOfSep(n)
    IN  [dir |-> SubSeq(n, 1, i), file |-> SubSeq(n, i+1, Len(n))]

\* the tokens with the empty segment of a short split put last
gvrTokensEmptyLast(gvr) ==
    LET tokens == Split(gvr)
    IN  IF Len(tokens) < 3 THEN tokens \o <<(<<>>)>> ELSE tokens

\* the tokens toGVR indexes: a short split gets one empty segment in front
gvrTokens(gvr) ==
    LET tokens == Split(gvr)
    IN  IF Len(tokens) < 3 THEN <<(<<>>)>> \o tokens ELSE tokens

\* toGVR: ok = FALSE is the index-out-of-range panic of tokens[2]
toGVR(gvr) ==
    LET tokens == gvrTokens(gvr)
    IN  IF Len(tokens) >= 3
        THEN [ok |-> TRUE, Group |-> tokens[1], Version |-> tokens[2],
              Resource |-> tokens[3]]
        ELSE [ok |-> FALSE, Group |-> <<>>, Version |-> <<>>, Resource |-> <<>>]

\* namespaced handing back the directory part as path.Split left it
namespacedUntrimmed(n) ==
    LET sp == PathSplit(n)
    IN  [ns |-> sp.dir, name |-> sp.file]

\* namespaced(n): path.Split, then the separators trimmed off the directory
namespaced(n) ==
    LET sp == PathSplit(n)
    IN  [ns |-> Trim(sp.dir), name |-> sp.file]

----------------------------------------------------------------------------
(* Access reviews *)

NoErr == <<>>
ErrDial == <<"dial failed">>
ErrDenied(v) == <<"access denied for user", v>>

\* CanI reviewing every verb and reporting the first refusal at the end
RECURSIVE CanIFromAllVerbs(_, _, _)
CanIFromAllVerbs(verbs, resp, i) ==
    IF i > Len(verbs)
    THEN [allowed |-> TRUE, err |-> NoErr, reviews |-> <<>>]
    ELSE LET rest == CanIFromAllVerbs(verbs, resp, i+1)
             here == IF resp[i] = "fail" THEN ErrDial
                     ELSE IF resp[i] = "deny" THEN ErrDenied(verbs[i])
                     ELSE rest.err
         IN  [allowed |-> resp[i] = "allow" /\ rest.allowed, err |-> here,
              reviews |-> <<verbs[i]>> \o rest.reviews]

\* APIClient.CanI: resp[i] is the answer of the i-th review that is issued
RECURSIVE CanIFrom(_, _, _)
CanIFrom(verbs, resp, i) ==
    IF i > Len(verbs)
    THEN [allowed |-> TRUE, err |-> NoErr, reviews |-> <<>>]
    ELSE IF resp[i] = "fail"
         THEN [allowed |-> FALSE, err |-> ErrDial, reviews |-> <<verbs[i]>>]
         ELSE IF resp[i] = "deny"
              THEN [allowed |-> FALSE, err |-> ErrDenied(verbs[i]),
                    reviews |-> <<verbs[i]>>]
              ELSE LET rest == CanIFrom(verbs, resp, i+1)
                   IN  [rest EXCEPT !.reviews = <<verbs[i]>> \o @]

CanI(verbs, resp) == CanIFrom(verbs, resp, 1)

----------------------------------------------------------------------------
(* Scope keys, resource identifiers and informer factories *)

allNamespaces == <<>>
clusterScope == <<"-">>

GvrPods == <<"v1", "/", "pods">>
GvrCRD == <<"apiextensions.k8s.io", "/", "v1beta1", "/", "customresourcedefinitions">>
GvrClusterRoles == <<"rbac.authorization.k8s.io", "/", "v1", "/", "clusterroles">>
GvrRoles == <<"rbac.authorization.k8s.io", "/", "v1", "/", "roles">>

NoInformers == [g \in {} |-> 0]

\* di.NewFilteredDynamicSharedInformerFactory(client, resync, ns, nil)
NewInformerFactory(ns) == [ns |-> ns, informers |-> NoInformers]

\* fact.ForResource(gvr): the informer of gvr, registered on first request
facForResource(fac, g) ==
    IF g \in DOMAIN fac.informers THEN fac
    ELSE [fac EXCEPT !.informers =
            (g :> [started |-> FALSE, ch |-> "none", synced |-> FALSE]) @@ @]

\* fact.Start(stopCh): runs every informer that has not been started yet
facStart(fac, ch) ==
    [fac EXCEPT !.informers =
        [g \in DOMAIN @ |->
            IF @[g].started THEN @[g]
            ELSE [started |-> TRUE, ch |-> ch, synced |-> FALSE]]]

\* the informers fact.WaitForCacheSync waits for: the started ones
facSynced(fac) ==
    \A g \in DOMAIN fac.informers :
        fac.informers[g].started => fac.informers[g].synced

----------------------------------------------------------------------------
(* The Factory's scope map.  w is the part of the Factory these methods    *)
(* read and write: factories, facs, stopChan, and two counters of the      *)
(* constructions and warm-ups done since the operation began.              *)

World == [factories |-> factories, facs |-> facs, stopChan |-> stopChan,
          constructed |-> 0, preloads |-> 0]

isClusterWide(w) == allNamespaces \in DOMAIN w.factories

RECURSIVE ensureFactory(_, _)
RECURSIVE preload(_, _)
RECURSIVE ForResource(_, _, _)

\* ensureFactory without the remap to the all-namespaces key
ensureFactoryNoRemap(w, ns0) ==
    IF ns0 \in DOMAIN w.factories
    THEN [w |-> w, fac |-> w.factories[ns0]]
    ELSE LET id == Len(w.facs) + 1
             w1 == [w EXCEPT !.factories = (ns0 :> id) @@ @,
                             !.facs = Append(@, NewInformerFactory(ns0)),
                             !.constructed = @ + 1]
             w2 == preload(w1, ns0)
         IN  [w |-> w2, fac |-> w2.factories[ns0]]

\* ensureFactory handing back the new set without warming it
ensureFactoryNoWarmup(w, ns0) ==
    LET ns == IF isClusterWide(w) THEN allNamespaces ELSE ns0
    IN  IF ns \in DOMAIN w.factories
        THEN [w |-> w, fac |-> w.factories[ns]]
        ELSE LET id == Len(w.facs) + 1
                 w1 == [w EXCEPT !.factories = (ns :> id) @@ @,
                                 !.facs = Append(@, NewInformerFactory(ns)),
                                 !.constructed = @ + 1]
             IN  [w |-> w1, fac |-> w1.factories[ns]]

\* returns [w, fac]: the new state and the reference handed back
ensureFactory(w, ns0) ==
    LET ns == IF isClusterWide(w) THEN allNamespaces ELSE ns0
    IN  IF ns \in DOMAIN w.factories
        THEN [w |-> w, fac |-> w.factories[ns]]
        ELSE LET id == Len(w.facs) + 1
                 w1 == [w EXCEPT !.factories = (ns :> id) @@ @,
                                 !.facs = Append(@, NewInformerFactory(ns)),
                                 !.constructed = @ + 1]
                 w2 == preload(w1, ns)
             IN  [w |-> w2, fac |-> w2.factories[ns]]

\* preload requesting all four kinds in the scope being warmed
preloadOwnScope(w, ns) ==
    LET w0 == [w EXCEPT !.preloads = @ + 1]
        w1 == ForResource(w0, ns, GvrPods).w
        w2 == ForResource(w1, ns, GvrCRD).w
        w3 == ForResource(w2, ns, GvrClusterRoles).w
    IN  ForResource(w3, ns, GvrRoles).w

preload(w, ns) ==
    LET w0 == [w EXCEPT !.preloads = @ + 1]
        w1 == ForResource(w0, ns, GvrPods).w
        w2 == ForResource(w1, allNamespaces, GvrCRD).w
        w3 == ForResource(w2, clusterScope, GvrClusterRoles).w
    IN  ForResource(w3, allNamespaces, GvrRoles).w

\* returns [w, ok, fac, gvr]: ok = FALSE when toGVR panics; the informer
\* handed back is the one of gvr in the factory fac
ForResource(w, ns, gvr) ==
    LET e == ensureFactory(w, ns)
        g == toGVR(gvr)
    IN  IF ~ g.ok
        THEN [w |-> e.w, ok |-> FALSE, fac |-> e.fac, gvr |-> g]
        ELSE [w |-> [e.w EXCEPT !.facs[e.fac] =
                        facStart(facForResource(@, g), e.w.stopChan)],
              ok |-> TRUE, fac |-> e.fac, gvr |-> g]

----------------------------------------------------------------------------
(* Inputs of the operations *)

Namespaces == {allNamespaces, clusterScope, <<"ns1">>}
\* a kind outside the warm-up set, and an identifier of one segment
GvrInputs == {<<"apps", "/", "v1", "/", "deployments">>, <<"pods">>}
\* label selectors handed to List
Selectors == {"everything", "app=x"}

GetPaths == {<<"ns1", "/", "p1">>, <<"p1">>, <<"-", "/", "cr1">>}

Sessions == {"s1", "s2", "s3"}
\* Forwarder.Path(): s1 and s2 forward the same container
Path(s) == IF s = "s3" THEN <<"ns1", "/", "p2", ":", "c1">>
           ELSE <<"ns1", "/", "p1", ":", "c1">>
Paths == {Path(s) : s \in Sessions} \cup {<<"ns1", "/", "p3", ":", "c1">>}

Responses == {"allow", "deny", "fail"}
Verbs == {"get", "list", "watch"}

\* what Client().CanI(ns, gvr, verbs) can answer: the API client's answers,
\* and the refusal without an error that the Authorizer interface allows
Authorizers(verbs) ==
    {CanI(verbs, resp) : resp \in [1..Len(verbs) -> Responses]}
        \cup {[allowed |-> FALSE, err |-> NoErr, reviews |-> verbs]}

\* what the authorization check answered: allowed, refused, or not completed
AuthAnswer(a) ==
    IF a.allowed THEN "allow" ELSE IF a.err = ErrDial THEN "fail" ELSE "deny"

\* the error texts, without the resource identifier they end with
ErrInsufficient(verb) == <<"User has insufficient access to", verb>>

NoPanic == "none"
PanicIndex == "index out of range"
PanicNil == "nil pointer dereference"
PanicClose == "close of closed channel"
PanicMapWrites == "concurrent map writes"

----------------------------------------------------------------------------
(* Factory.List and Factory.Get *)

\* what an operation leaves behind; qns and qsel are the namespace and the
\* selector a lister was called with
Outcome(w, err, fac, query, panic) ==
    [w |-> w, err |-> err, fac |-> fac, query |-> query, panic |-> panic,
     qns |-> <<>>, qsel |-> "none"]

\* inf.Lister().List(sel) and inf.Lister().ByNamespace(ns).List(sel)
Listed(w, fac, ns, sel) ==
    IF ns = clusterScope
    THEN [Outcome(w, NoErr, fac, "List", NoPanic) EXCEPT !.qsel = sel]
    ELSE [Outcome(w, NoErr, fac, "ByNamespace.List", NoPanic)
              EXCEPT !.qns = ns, !.qsel = sel]

\* List that never narrows the listing to a namespace
ListOutcomeUnfiltered(w, gvr, ns, sel, a) ==
    IF a.err # NoErr THEN Outcome(w, a.err, 0, "none", NoPanic)
    ELSE IF ~ a.allowed
    THEN Outcome(w, ErrInsufficient("list"), 0, "none", NoPanic)
    ELSE LET r == ForResource(w, ns, gvr)
         IN  IF ~ r.ok THEN Outcome(r.w, NoErr, r.fac, "none", PanicIndex)
             ELSE Listed(r.w, r.fac, clusterScope, sel)

\* List resolving the informer before it looks at the authorization answer
ListOutcomeResolveFirst(w, gvr, ns, sel, a) ==
    LET r == ForResource(w, ns, gvr)
    IN  IF a.err # NoErr THEN Outcome(r.w, a.err, 0, "none", NoPanic)
        ELSE IF ~ a.allowed
        THEN Outcome(r.w, ErrInsufficient("list"), 0, "none", NoPanic)
        ELSE IF ~ r.ok THEN Outcome(r.w, NoErr, r.fac, "none", PanicIndex)
        ELSE Listed(r.w, r.fac, ns, sel)

\* List testing the boolean answer before the error of the check
ListOutcomeAuthFirst(w, gvr, ns, sel, a) ==
    IF ~ a.allowed
    THEN Outcome(w, ErrInsufficient("list"), 0, "none", NoPanic)
    ELSE IF a.err # NoErr THEN Outcome(w, a.err, 0, "none", NoPanic)
    ELSE LET r == ForResource(w, ns, gvr)
         IN  IF ~ r.ok THEN Outcome(r.w, NoErr, r.fac, "none", PanicIndex)
             ELSE Listed(r.w, r.fac, ns, sel)

\* Factory.List(gvr, ns, sel) with a the answer of the authorization check
ListOutcome(w, gvr, ns, sel, a) ==
    IF a.err # NoErr THEN Outcome(w, a.err, 0, "none", NoPanic)
    ELSE IF ~ a.allowed
    THEN Outcome(w, ErrInsufficient("list"), 0, "none", NoPanic)
    ELSE LET r == ForResource(w, ns, gvr)
         IN  IF ~ r.ok THEN Outcome(r.w, NoErr, r.fac, "none", PanicIndex)
             ELSE Listed(r.w, r.fac, ns, sel)

\* Factory.Get(gvr, path, sel) after ns, n := namespaced(path)
GetOutcome(w, gvr, ns, a) ==
    IF a.err # NoErr THEN Outcome(w, a.err, 0, "none", NoPanic)
    ELSE IF ~ a.allowed
    THEN Outcome(w, ErrInsufficient("get"), 0, "none", NoPanic)
    ELSE LET r == ForResource(w, ns, gvr)
         IN  IF ~ r.ok THEN Outcome(r.w, NoErr, r.fac, "none", PanicIndex)
             ELSE IF ns = clusterScope
             THEN Outcome(r.w, NoErr, r.fac, "Get", NoPanic)
             ELSE Outcome(r.w, NoErr, r.fac, "ByNamespace.Get", NoPanic)

----------------------------------------------------------------------------
(* State *)

NoLast == [op |-> "none", ns |-> <<>>, name |-> <<>>, path |-> <<>>,
           sel |-> "none", auth |-> "none",
           err |-> NoErr, fac |-> 0, query |-> "none",
           qns |-> <<>>, qsel |-> "none",
           constructed |-> 0, preloads |-> 0, sess |-> "none",
           prev |-> "none", found |-> FALSE, owned |-> {}]

NoCall == [fn |-> "none", kind |-> "none", s |-> <<>>, verbs |-> <<>>,
           resp |-> <<>>, out |-> <<>>]

NoForwarders == [p \in {} |-> "none"]

\* the goroutines that may call into the Factory at the same time
Callers == {"c1", "c2"}

\* a goroutine outside ensureFactory
NoCaller == [pc |-> "idle", ns |-> <<>>, key |-> <<>>, absent |-> FALSE,
             fac |-> 0]

NoCallers == [c \in Callers |-> NoCaller]

\* the Factory that NewFactory returns
NewFactory ==
    /\ factories = [k \in {} |-> 0]
    /\ facs = <<>>
    /\ stopChan = "chan"
    /\ chanClosed = FALSE
    /\ activeNS = <<>>
    /\ forwarders = NoForwarders
    /\ sessState = [s \in Sessions |-> "Running"]
    /\ waiter = [pc |-> "idle", todo |-> {}, owned |-> {}]
    /\ panicked = NoPanic
    /\ last = NoLast
    /\ callers = NoCallers

Init == NewFactory /\ pcall = NoCall

\* the single foreground path is free and the process is alive
Idle == panicked = NoPanic /\ waiter.pc = "idle"

\* an operation that went through the scope map: its effect on the state
Commit(o, l) ==
    /\ Len(o.w.facs) <= MaxFactories
    /\ factories' = o.w.factories
    /\ facs' = o.w.facs
    /\ panicked' = o.panic
    /\ last' = [l EXCEPT !.err = o.err, !.fac = o.fac, !.query = o.query,
                         !.qns = o.qns, !.qsel = o.qsel,
                         !.constructed = o.w.constructed,
                         !.preloads = o.w.preloads]

List(gvr, ns, sel, a) ==
    /\ Idle
    /\ Commit(ListOutcome(World, gvr, ns, sel, a),
              [NoLast EXCEPT !.op = "List", !.ns = ns, !.sel = sel,
                             !.auth = AuthAnswer(a)])
    /\ UNCHANGED <<stopChan, chanClosed, activeNS, forwarders, sessState,
                   waiter, pcall, callers>>

Get(gvr, path, a) ==
    /\ Idle
    /\ Commit(GetOutcome(World, gvr, namespaced(path).ns, a),
              [NoLast EXCEPT !.op = "Get", !.ns = namespaced(path).ns,
                             !.name = namespaced(path).name,
                             !.path = path, !.auth = AuthAnswer(a)])
    /\ UNCHANGED <<stopChan, chanClosed, activeNS, forwarders, sessState,
                   waiter, pcall, callers>>

----------------------------------------------------------------------------
(* Scope-map operations *)

\* Factory.SetActive(ns)
SetActiveOutcome(w, ns) ==
    IF ~ isClusterWide(w)
    THEN LET e == ensureFactory(w, ns)
         IN  Outcome(e.w, NoErr, e.fac, "none", NoPanic)
    ELSE Outcome(w, NoErr, 0, "none", NoPanic)

SetActive(ns) ==
    /\ Idle
    /\ Commit(SetActiveOutcome(World, ns),
              [NoLast EXCEPT !.op = "SetActive", !.ns = ns])
    /\ activeNS' = ns
    /\ UNCHANGED <<stopChan, chanClosed, forwarders, sessState, waiter,
                   pcall, callers>>

\* Factory.Preload(ns, gvr): the informer is dropped
PreloadOutcome(w, ns, gvr) ==
    LET r == ForResource(w, ns, gvr)
    IN  Outcome(r.w, NoErr, r.fac, "none", IF r.ok THEN NoPanic ELSE PanicIndex)

Preload(ns, gvr) ==
    /\ Idle
    /\ Commit(PreloadOutcome(World, ns, gvr),
              [NoLast EXCEPT !.op = "Preload", !.ns = ns])
    /\ UNCHANGED <<stopChan, chanClosed, activeNS, forwarders, sessState,
                   waiter, pcall, callers>>

\* Factory.Show(ns, gvr): logs the keys of the informer's store
ShowOutcome(w, ns, gvr) ==
    LET r == ForResource(w, ns, gvr)
    IN  IF r.ok THEN Outcome(r.w, NoErr, r.fac, "ListKeys", NoPanic)
        ELSE Outcome(r.w, NoErr, r.fac, "none", PanicIndex)

Show(ns, gvr) ==
    /\ Idle
    /\ Commit(ShowOutcome(World, ns, gvr),
              [NoLast EXCEPT !.op = "Show", !.ns = ns])
    /\ UNCHANGED <<stopChan, chanClosed, activeNS, forwarders, sessState,
                   waiter, pcall, callers>>

\* Factory.Debug(gvr): asks the all-namespaces factory itself for the
\* informer, without ensureFactory and without Start
DebugOutcomes(w, gvr) ==
    LET g == toGVR(gvr)
        nilFac == ~ isClusterWide(w)
        id == w.factories[allNamespaces]
    IN  IF nilFac \/ ~ g.ok
        THEN {Outcome(w, NoErr, 0, "none", p) :
                p \in (IF nilFac THEN {PanicNil} ELSE {})
                        \cup (IF g.ok THEN {} ELSE {PanicIndex})}
        ELSE {Outcome([w EXCEPT !.facs[id] = facForResource(@, g)],
                      NoErr, id, "ListKeys", NoPanic)}

Debug(gvr) ==
    /\ Idle
    /\ \E o \in DebugOutcomes(World, gvr) :
         Commit(o, [NoLast EXCEPT !.op = "Debug"])
    /\ UNCHANGED <<stopChan, chanClosed, activeNS, forwarders, sessState,
                   waiter, pcall, callers>>

\* Factory.FactoryFor(ns): 0 is the nil factory
FactoryFor(ns) ==
    /\ Idle
    /\ last' = [NoLast EXCEPT !.op = "FactoryFor", !.ns = ns,
                   !.fac = IF ns \in DOMAIN factories THEN factories[ns] ELSE 0]
    /\ UNCHANGED <<factories, facs, stopChan, chanClosed, activeNS, forwarders,
                   sessState, waiter, panicked, pcall, callers>>

\* Factory.Start(stopChan): starts every factory of the scope map
Start(w, ch) ==
    [w EXCEPT !.facs =
        [i \in DOMAIN @ |->
            IF \E k \in DOMAIN w.factories : w.factories[k] = i
            THEN facStart(@[i], ch) ELSE @[i]]]

\* Factory.Init()
InitStart ==
    /\ Idle
    /\ Commit(Outcome(Start(World, stopChan), NoErr, 0, "none", NoPanic),
              [NoLast EXCEPT !.op = "Init"])
    /\ UNCHANGED <<stopChan, chanClosed, activeNS, forwarders, sessState,
                   waiter, pcall, callers>>

----------------------------------------------------------------------------
(* Initial sync *)

\* the stop channel an informer was started with has been closed
Stopped(inf) == inf.ch = "chan" /\ chanClosed

\* an informer's background task receives its initial listing
InformerSync(id, g) ==
    /\ panicked = NoPanic
    /\ id \in DOMAIN facs
    /\ g \in DOMAIN facs[id].informers
    /\ facs[id].informers[g].started
    /\ ~ facs[id].informers[g].synced
    /\ ~ Stopped(facs[id].informers[g])
    /\ facs' = [facs EXCEPT ![id].informers[g].synced = TRUE]
    /\ UNCHANGED <<factories, stopChan, chanClosed, activeNS, forwarders,
                   sessState, waiter, panicked, last, pcall, callers>>

\* Factory.WaitForCacheSync(): the range over the scope map begins
WaitBegin ==
    /\ Idle
    /\ LET ids == {factories[k] : k \in DOMAIN factories}
       IN  waiter' = [pc |-> "waiting", todo |-> ids, owned |-> ids]
    /\ UNCHANGED <<factories, facs, stopChan, chanClosed, activeNS, forwarders,
                   sessState, panicked, last, pcall, callers>>

\* fac.WaitForCacheSync(f.stopChan) returns for one factory of the range
WaitFactory(id) ==
    /\ panicked = NoPanic
    /\ waiter.pc = "waiting"
    /\ id \in waiter.todo
    /\ facSynced(facs[id]) \/ (stopChan = "chan" /\ chanClosed)
    /\ waiter' = [waiter EXCEPT !.todo = @ \ {id}]
    /\ UNCHANGED <<factories, facs, stopChan, chanClosed, activeNS, forwarders,
                   sessState, panicked, last, pcall, callers>>

\* Factory.WaitForCacheSync() returns
WaitReturn ==
    /\ panicked = NoPanic
    /\ waiter.pc = "waiting"
    /\ waiter.todo = {}
    /\ waiter' = [pc |-> "idle", todo |-> {}, owned |-> {}]
    /\ last' = [NoLast EXCEPT !.op = "WaitForCacheSync", !.owned = waiter.owned]
    /\ UNCHANGED <<factories, facs, stopChan, chanClosed, activeNS, forwarders,
                   sessState, panicked, pcall, callers>>

----------------------------------------------------------------------------
(* Port-forward registry and Terminate *)

\* Forwarder.Stop()
Stop(ss, s) == [ss EXCEPT ![s] = "Stopped"]

\* Forwarders.DeleteAll(): stops and removes every session
DeleteAll(fw, ss) ==
    [forwarders |-> NoForwarders,
     sessState |-> [s \in Sessions |->
                      IF \E p \in DOMAIN fw : fw[p] = s THEN "Stopped" ELSE ss[s]]]

\* Factory.ForwarderFor(path)
ForwarderForOutcome(fw, path) ==
    IF path \in DOMAIN fw THEN [sess |-> fw[path], found |-> TRUE]
    ELSE [sess |-> "none", found |-> FALSE]

\* RegisterForwarder leaving a path that is taken to its first session
RegisterKeepsFirst(fw, pf) ==
    IF Path(pf) \in DOMAIN fw THEN fw
    ELSE [p \in DOMAIN fw \cup {Path(pf)} |-> IF p = Path(pf) THEN pf ELSE fw[p]]

\* Factory.RegisterForwarder(pf)
RegisterOutcome(fw, pf) ==
    [p \in DOMAIN fw \cup {Path(pf)} |-> IF p = Path(pf) THEN pf ELSE fw[p]]

RegisterForwarder(pf) ==
    /\ Idle
    /\ forwarders' = RegisterOutcome(forwarders, pf)
    /\ last' = [NoLast EXCEPT !.op = "RegisterForwarder", !.sess = pf,
                              !.name = Path(pf),
                              !.prev = ForwarderForOutcome(forwarders, Path(pf)).sess]
    /\ UNCHANGED <<factories, facs, stopChan, chanClosed, activeNS, sessState,
                   waiter, panicked, pcall, callers>>

\* DeleteForwarder removing the entry without stopping its session
DeleteWithoutStop(fw, ss, path) ==
    IF path \in DOMAIN fw
    THEN [forwarders |-> [p \in DOMAIN fw \ {path} |-> fw[p]], sessState |-> ss]
    ELSE [forwarders |-> fw, sessState |-> ss]

\* Factory.DeleteForwarder(path)
DeleteOutcome(fw, ss, path) ==
    IF path \in DOMAIN fw
    THEN [forwarders |-> [p \in DOMAIN fw \ {path} |-> fw[p]],
          sessState |-> Stop(ss, fw[path])]
    ELSE [forwarders |-> fw, sessState |-> ss]

DeleteForwarder(path) ==
    /\ Idle
    /\ LET o == DeleteOutcome(forwarders, sessState, path)
       IN  /\ forwarders' = o.forwarders
           /\ sessState' = o.sessState
    /\ last' = [NoLast EXCEPT !.op = "DeleteForwarder", !.name = path,
                              !.found = path \in DOMAIN forwarders]
    /\ UNCHANGED <<factories, facs, stopChan, chanClosed, activeNS, waiter,
                   panicked, pcall, callers>>

\* Factory.ForwarderFor(path): the lookup
ForwarderFor(path) ==
    /\ Idle
    /\ LET o == ForwarderForOutcome(forwarders, path)
       IN  last' = [NoLast EXCEPT !.op = "ForwarderFor", !.name = path,
                                  !.sess = o.sess, !.found = o.found]
    /\ UNCHANGED <<factories, facs, stopChan, chanClosed, activeNS, forwarders,
                   sessState, waiter, panicked, pcall, callers>>

\* Terminate leaving the scope map as it is
TerminateKeepsScopes(t) ==
    IF t.stopChan # "nil" /\ t.chanClosed
    THEN [t EXCEPT !.panic = PanicClose]
    ELSE LET d == DeleteAll(t.forwarders, t.sessState)
         IN  [stopChan |-> "nil",
              chanClosed |-> IF t.stopChan # "nil" THEN TRUE ELSE t.chanClosed,
              factories |-> t.factories,
              forwarders |-> d.forwarders,
              sessState |-> d.sessState,
              panic |-> NoPanic]

\* Terminate closing the channel without setting the field to nil
TerminateKeepsChan(t) ==
    IF t.stopChan # "nil" /\ t.chanClosed
    THEN [t EXCEPT !.panic = PanicClose]
    ELSE LET d == DeleteAll(t.forwarders, t.sessState)
         IN  [stopChan |-> t.stopChan,
              chanClosed |-> IF t.stopChan # "nil" THEN TRUE ELSE t.chanClosed,
              factories |-> [k \in {} |-> 0],
              forwarders |-> d.forwarders,
              sessState |-> d.sessState,
              panic |-> NoPanic]

\* Factory.Terminate() on t = [stopChan, chanClosed, factories, forwarders,
\* sessState]: the new values, and the panic of closing a closed channel
TerminateOutcome(t) ==
    IF t.stopChan # "nil" /\ t.chanClosed
    THEN [t EXCEPT !.panic = PanicClose]
    ELSE LET d == DeleteAll(t.forwarders, t.sessState)
         IN  [stopChan |-> "nil",
              chanClosed |-> IF t.stopChan # "nil" THEN TRUE ELSE t.chanClosed,
              factories |-> [k \in {} |-> 0],
              forwarders |-> d.forwarders,
              sessState |-> d.sessState,
              panic |-> NoPanic]

Terminate ==
    /\ Idle
    /\ LET o == TerminateOutcome([stopChan |-> stopChan,
                                  chanClosed |-> chanClosed,
                                  factories |-> factories,
                                  forwarders |-> forwarders,
                                  sessState |-> sessState,
                                  panic |-> NoPanic])
       IN  /\ stopChan' = o.stopChan
           /\ chanClosed' = o.chanClosed
           /\ factories' = o.factories
           /\ forwarders' = o.forwarders
           /\ sessState' = o.sessState
           /\ panicked' = o.panic
    /\ last' = [NoLast EXCEPT !.op = "Terminate"]
    /\ UNCHANGED <<facs, activeNS, waiter, pcall, callers>>

----------------------------------------------------------------------------
(* The Factory *)

\* operations on the scope map
ScopeNext ==
    \/ \E gvr \in GvrInputs, ns \in Namespaces :
         \E sel \in Selectors :
             \E a \in Authorizers(<<"list">>) : List(gvr, ns, sel, a)
    \/ \E gvr \in GvrInputs, path \in GetPaths :
         \E a \in Authorizers(<<"get">>) : Get(gvr, path, a)
    \/ \E ns \in Namespaces : SetActive(ns)
    \/ \E ns \in Namespaces, gvr \in GvrInputs : Preload(ns, gvr)
    \/ \E ns \in Namespaces, gvr \in GvrInputs : Show(ns, gvr)
    \/ \E gvr \in GvrInputs : Debug(gvr)
    \/ \E ns \in Namespaces : FactoryFor(ns)
    \/ InitStart
    \/ Terminate

\* the background tasks and the caller waiting for them
SyncNext ==
    \/ \E id \in DOMAIN facs :
         \E g \in DOMAIN facs[id].informers : InformerSync(id, g)
    \/ WaitBegin
    \/ \E id \in waiter.todo : WaitFactory(id)
    \/ WaitReturn

\* operations on the port-forward registry
FwdNext ==
    \/ \E pf \in Sessions : RegisterForwarder(pf)
    \/ \E path \in Paths : DeleteForwarder(path)
    \/ \E path \in Paths : ForwarderFor(path)

Next == ScopeNext \/ SyncNext \/ FwdNext

Spec == Init /\ [][Next]_vars

\* the scope map alone: no session is registered, nobody waits
SpecScope == Init /\ [][ScopeNext]_vars

\* initial sync: scopes are opened and started while the informers sync
\* and a caller waits
SpecSync ==
    Init /\ [][\/ SyncNext
               \/ \E ns \in Namespaces, gvr \in GvrInputs : Preload(ns, gvr)
               \/ \E gvr \in GvrInputs : Debug(gvr)
               \/ InitStart]_vars

\* the registry, with the scope map opened and the Factory shut down
SpecFwd ==
    Init /\ [][\/ FwdNext
               \/ \E ns \in Namespaces, gvr \in GvrInputs : Preload(ns, gvr)
               \/ Terminate]_vars

----------------------------------------------------------------------------
(* ensureFactory run by several goroutines.  The Factory holds no lock, so *)
(* the calls interleave between the statements of ensureFactory.           *)

\* the remap of ns and the lookup of the key
EnsureEnter(c, ns) ==
    /\ panicked = NoPanic
    /\ callers[c].pc = "idle"
    /\ LET key == IF isClusterWide(World) THEN allNamespaces ELSE ns
       IN  callers' = [callers EXCEPT ![c] =
               IF key \in DOMAIN factories
               THEN [pc |-> "done", ns |-> ns, key |-> key, absent |-> FALSE,
                     fac |-> factories[key]]
               ELSE [pc |-> "store", ns |-> ns, key |-> key, absent |-> TRUE,
                     fac |-> 0]]
    /\ UNCHANGED <<factories, facs, stopChan, chanClosed, activeNS, forwarders,
                   sessState, waiter, panicked, last, pcall>>

\* f.factories[ns] = di.NewFilteredDynamicSharedInformerFactory(...)
EnsureStore(c) ==
    /\ panicked = NoPanic
    /\ callers[c].pc = "store"
    /\ Len(facs) < MaxFactories
    /\ factories' = (callers[c].key :> (Len(facs) + 1)) @@ factories
    /\ facs' = Append(facs, NewInformerFactory(callers[c].key))
    /\ callers' = [callers EXCEPT ![c].pc = "warm"]
    /\ UNCHANGED <<stopChan, chanClosed, activeNS, forwarders, sessState,
                   waiter, panicked, last, pcall>>

\* the store reaching the map while another goroutine is writing it: the
\* Go runtime may detect the unsynchronised writes and abort the process
EnsureFatal(c) ==
    /\ panicked = NoPanic
    /\ callers[c].pc = "store"
    /\ \E d \in Callers \ {c} : callers[d].pc \in {"store", "warm"}
    /\ panicked' = PanicMapWrites
    /\ UNCHANGED <<factories, facs, stopChan, chanClosed, activeNS, forwarders,
                   sessState, waiter, last, pcall, callers>>

\* f.preload(ns)
EnsureWarm(c) ==
    /\ panicked = NoPanic
    /\ callers[c].pc = "warm"
    /\ LET w == preload(World, callers[c].key)
       IN  /\ Len(w.facs) <= MaxFactories
           /\ factories' = w.factories
           /\ facs' = w.facs
    /\ callers' = [callers EXCEPT ![c].pc = "return"]
    /\ UNCHANGED <<stopChan, chanClosed, activeNS, forwarders, sessState,
                   waiter, panicked, last, pcall>>

\* return f.factories[ns]
EnsureReturn(c) ==
    /\ panicked = NoPanic
    /\ callers[c].pc = "return"
    /\ callers' = [callers EXCEPT ![c].pc = "done",
                                  ![c].fac = IF callers[c].key \in DOMAIN factories
                                             THEN factories[callers[c].key]
                                             ELSE 0]
    /\ UNCHANGED <<factories, facs, stopChan, chanClosed, activeNS, forwarders,
                   sessState, waiter, panicked, last, pcall>>

RaceNext ==
    \/ \E c \in Callers, ns \in Namespaces : EnsureEnter(c, ns)
    \/ \E c \in Callers : EnsureStore(c)
    \/ \E c \in Callers : EnsureFatal(c)
    \/ \E c \in Callers : EnsureWarm(c)
    \/ \E c \in Callers : EnsureReturn(c)

\* every goroutine calls ensureFactory once
SpecRace == Init /\ [][RaceNext]_vars

----------------------------------------------------------------------------
(* The pure helpers, applied to every input within the bounds *)

Atoms == {Slash, "a", "b"}

SeqsUpTo(S, n) == UNION {[1..k -> S] : k \in 0..n}

Strings == SeqsUpTo(Atoms, MaxLen)

PureInputs ==
    {[NoCall EXCEPT !.kind = "string", !.s = x] : x \in Strings}
        \cup {[NoCall EXCEPT !.kind = "verbs", !.verbs = v, !.resp = r] :
                <<v, r>> \in UNION {[1..k -> Verbs] \X [1..k -> Responses] :
                                      k \in 0..MaxVerbs}}

InitPure == NewFactory /\ pcall \in PureInputs

CallToGVR ==
    /\ pcall.fn = "none" /\ pcall.kind = "string"
    /\ pcall' = [pcall EXCEPT !.fn = "toGVR", !.out = toGVR(pcall.s)]
    /\ UNCHANGED factoryVars

CallNamespaced ==
    /\ pcall.fn = "none" /\ pcall.kind = "string"
    /\ pcall' = [pcall EXCEPT !.fn = "namespaced", !.out = namespaced(pcall.s)]
    /\ UNCHANGED factoryVars

CallCanI ==
    /\ pcall.fn = "none" /\ pcall.kind = "verbs"
    /\ pcall' = [pcall EXCEPT !.fn = "CanI", !.out = CanI(pcall.verbs, pcall.resp)]
    /\ UNCHANGED factoryVars

PureNext == CallToGVR \/ CallNamespaced \/ CallCanI

SpecPure == InitPure /\ [][PureNext]_vars

----------------------------------------------------------------------------
(* Claims about the pure helpers (SpecPure) *)

\* the position of the first verb that is not allowed, Len(verbs)+1 if none
FirstRefusal(verbs, resp) ==
    LET bad == {i \in 1..Len(verbs) : resp[i] # "allow"}
    IN  IF bad = {} THEN Len(verbs) + 1
        ELSE CHOOSE i \in bad : \A j \in bad : i <= j

\* C8: CanI issues one review per verb, in the given order, up to and
\* including the first verb that is denied or whose review fails, and none
\* after it; it answers allowed exactly when every verb was reviewed and
\* allowed, which for the empty list means allowed with no review at all.
C8_CanIStopsAtFirstRefusal ==
    pcall.fn = "CanI" =>
        LET n == FirstRefusal(pcall.verbs, pcall.resp)
            k == IF n > Len(pcall.verbs) THEN Len(pcall.verbs) ELSE n
        IN  /\ pcall.out.reviews = SubSeq(pcall.verbs, 1, k)
            /\ pcall.out.allowed <=> n > Len(pcall.verbs)
            /\ pcall.out.allowed <=> pcall.out.err = NoErr
            /\ pcall.verbs = <<>> =>
                 pcall.out.allowed /\ pcall.out.reviews = <<>>

\* a list of three verbs whose second review is refused was cut after two
C8_Witness ==
    /\ pcall.fn = "CanI"
    /\ Len(pcall.verbs) = 3
    /\ pcall.resp[1] = "allow" /\ pcall.resp[2] = "deny"
    /\ Len(pcall.out.reviews) = 2
    /\ ~ pcall.out.allowed

\* C9: resolving any input string into a ResourceIdentity never fails and
\* yields the three positions group, version, resource - for the empty
\* string, a string without separator and a string of more than three
\* segments alike.
C9_ResolveNeverFails ==
    pcall.fn = "toGVR" => pcall.out.ok

----------------------------------------------------------------------------
(* Claims about the scope map and the shutdown signal (SpecScope) *)

IsAccessDenied(err) ==
    /\ err # NoErr
    /\ err[1] \in {"access denied for user", "User has insufficient access to"}

\* the operations that hand back the result of ensureFactory
EnsureOps == {"List", "Get", "Preload", "Show", "SetActive"}

C1_Step ==
    (last'.op \in {"List", "Get"} /\ last'.auth = "deny") =>
        /\ IsAccessDenied(last'.err)
        /\ last'.query = "none"
        /\ last'.constructed = 0
        /\ last'.preloads = 0
        /\ factories' = factories
        /\ facs' = facs
        /\ panicked' = NoPanic

\* C1: when the authorization check answers not-allowed, List and Get return
\* an access-denied error, query no informer store, and leave the scope map
\* and every informer factory as they were (nothing constructed, nothing
\* registered, nothing started).
C1_DeniedTouchesNothing == [][C1_Step]_vars

\* a refused List on a Factory that owns scopes
C1_Witness ==
    /\ last.op = "List"
    /\ last.auth = "deny"
    /\ last.ns = <<"ns1">>
    /\ IsAccessDenied(last.err)
    /\ DOMAIN factories # {}

C7_Step ==
    (last'.op \in {"List", "Get"} /\ last'.auth = "fail") =>
        /\ last'.err = ErrDial
        /\ ~ IsAccessDenied(last'.err)
        /\ last'.query = "none"
        /\ factories' = factories
        /\ facs' = facs

\* C7: when the authorization check cannot be completed, List and Get return
\* the failure of the check itself, which is not an access-denied error, and
\* touch neither an informer store nor the scope map.
C7_CheckFailureAsIs == [][C7_Step]_vars

\* a Get whose check failed, on a Factory that owns scopes
C7_Witness ==
    /\ last.op = "Get"
    /\ last.auth = "fail"
    /\ last.err = ErrDial
    /\ DOMAIN factories # {}

C2_Step ==
    (allNamespaces \in DOMAIN factories) =>
        /\ DOMAIN factories' \subseteq DOMAIN factories
        /\ last'.constructed = 0
        /\ (last'.op \in EnsureOps /\ last'.fac # 0)
              => (last'.fac = factories[allNamespaces])
        /\ (last'.op = "SetActive")
              => (/\ factories' = factories
                  /\ facs' = facs
                  /\ activeNS' = last'.ns
                  /\ UNCHANGED <<stopChan, chanClosed, forwarders, sessState,
                                 waiter, panicked>>)

\* C2: from a state whose scope map holds the all-namespaces factory, no
\* operation adds a key to the scope map; every ensure hands back the
\* all-namespaces factory; SetActive changes only the active namespace.
C2_ClusterWideAbsorbs == [][C2_Step]_vars

\* SetActive("ns1") on a Factory that is cluster wide: ns1 is active and
\* has no factory of its own
C2_Witness ==
    /\ last.op = "SetActive"
    /\ last.ns = <<"ns1">>
    /\ activeNS = <<"ns1">>
    /\ allNamespaces \in DOMAIN factories
    /\ <<"ns1">> \notin DOMAIN factories

C3_Step ==
    (/\ stopChan = "chan"
     /\ last.op \in EnsureOps
     /\ last.fac # 0
     /\ last'.op \in EnsureOps
     /\ last'.fac # 0
     /\ last'.ns = last.ns) =>
        /\ last'.fac = last.fac
        /\ last'.constructed = 0
        /\ last'.preloads = 0

\* C3: before Terminate, two successive ensure operations for the same
\* scope key hand back the same factory, and the second constructs nothing
\* and warms nothing up.
C3_EnsureTwiceSameSet == [][C3_Step]_vars

C4_Step ==
    /\ stopChan' \in {"chan", "nil"}
    /\ (stopChan = "nil") => (stopChan' = "nil")
    /\ chanClosed => chanClosed'
    /\ (chanClosed' /\ ~ chanClosed) => (last'.op = "Terminate")
    /\ panicked' # PanicClose
    /\ (last'.op = "Terminate")
          => (stopChan' = "nil" /\ chanClosed' /\ panicked' = NoPanic)

\* C4: the stop channel is the one NewFactory made; it is closed at most
\* once (no close of a closed channel), a closed channel stays closed, the
\* field never leaves nil again, and every Terminate - the first and the
\* later ones - ends with the channel closed, the field nil and no panic.
C4_SignalClosedOnce == [][C4_Step]_vars

\* a Terminate of a Factory that had been terminated before: it holds an
\* informer that was started with the nil channel
C4_Witness ==
    /\ last.op = "Terminate"
    /\ stopChan = "nil"
    /\ chanClosed
    /\ panicked = NoPanic
    /\ \E i \in DOMAIN facs : \E g \in DOMAIN facs[i].informers :
         facs[i].informers[g].ch = "nil"

----------------------------------------------------------------------------
(* Claims about Terminate and the registry (SpecFwd) *)

C5_Step ==
    (last'.op = "Terminate") =>
        /\ DOMAIN factories' = {}
        /\ DOMAIN forwarders' = {}
        /\ \A p \in DOMAIN forwarders : sessState'[forwarders[p]] = "Stopped"

\* C5: when Terminate returns, the scope map is empty, the registry is
\* empty, and every session that was registered when it was called is
\* Stopped.
C5_TerminateClearsAll == [][C5_Step]_vars

\* a Terminate that found scopes and the sessions s2 and s3 registered
C5_Witness ==
    /\ last.op = "Terminate"
    /\ Len(facs) > 0
    /\ DOMAIN factories = {}
    /\ DOMAIN forwarders = {}
    /\ sessState = [s \in Sessions |-> IF s = "s1" THEN "Running" ELSE "Stopped"]

C10_Step ==
    /\ (last'.op = "RegisterForwarder") =>
          LET pf == last'.sess
          IN  /\ ForwarderForOutcome(forwarders', Path(pf))
                    = [sess |-> pf, found |-> TRUE]
              /\ \A p \in DOMAIN forwarders \ {Path(pf)} :
                    p \in DOMAIN forwarders' /\ forwarders'[p] = forwarders[p]
              /\ DOMAIN forwarders' = DOMAIN forwarders \cup {Path(pf)}
              /\ (Path(pf) \in DOMAIN forwarders) =>
                    Cardinality(DOMAIN forwarders') = Cardinality(DOMAIN forwarders)
              /\ sessState' = sessState
    /\ (last.op = "RegisterForwarder" /\ last'.op = "ForwarderFor"
            /\ last'.name = last.name) =>
          (last'.found /\ last'.sess = last.sess)

\* C10: RegisterForwarder stores the session under its Path(), one entry
\* per path: after S1 and then S2 were registered under one path, the
\* lookup of the path gives (S2, true), the second registration did not
\* change the size of the registry or any other entry, and S1 was dropped
\* without being stopped.
C10_RegisterReplaces == [][C10_Step]_vars

\* s2 was registered over s1, which is still Running
C10_Witness ==
    /\ last.op = "RegisterForwarder"
    /\ last.sess = "s2"
    /\ last.prev = "s1"
    /\ forwarders[Path("s2")] = "s2"
    /\ sessState["s1"] = "Running"
    /\ \A p \in DOMAIN forwarders : forwarders[p] # "s1"

----------------------------------------------------------------------------
(* Claims about the initial sync (SpecSync) *)

\* C6: WaitForCacheSync returns only after every informer of every factory
\* that the scope map held when it was called has received its initial
\* listing.
C6_WaitCoversEveryInformer ==
    (last.op = "WaitForCacheSync") =>
        \A id \in last.owned : \A g \in DOMAIN facs[id].informers :
            facs[id].informers[g].synced

----------------------------------------------------------------------------
(* Further claims about the registry (SpecFwd) *)

C11_Step ==
    (last'.op = "DeleteForwarder") =>
        LET p == last'.name
        IN  IF p \in DOMAIN forwarders
            THEN /\ sessState' = [sessState EXCEPT ![forwarders[p]] = "Stopped"]
                 /\ DOMAIN forwarders' = DOMAIN forwarders \ {p}
                 /\ \A q \in DOMAIN forwarders' : forwarders'[q] = forwarders[q]
                 /\ ~ ForwarderForOutcome(forwarders', p).found
            ELSE /\ forwarders' = forwarders
                 /\ sessState' = sessState

\* C11: DeleteForwarder(path) stops the session registered under path and
\* removes it, so that a lookup of path finds nothing and every other entry
\* and every other session is as before; when nothing is registered under
\* path, the registry and the state of every session stay unchanged.
C11_DeleteStopsAndRemoves == [][C11_Step]_vars

\* the entry of s1's path was deleted while s3 stays registered and Running
C11_Witness ==
    /\ last.op = "DeleteForwarder"
    /\ last.found
    /\ last.name = Path("s1")
    /\ Path("s1") \notin DOMAIN forwarders
    /\ Path("s3") \in DOMAIN forwarders
    /\ sessState["s3"] = "Running"
    /\ \E s \in {"s1", "s2"} : sessState[s] = "Stopped"

----------------------------------------------------------------------------
(* Further claims about List and Get (SpecScope) *)

\* C12: Get splits path into namespace and name and checks the verb "get"
\* for that namespace; for a cluster-scoped resource, addressed with the
\* cluster-scope sentinel or by a bare name, the object is looked up by
\* name directly, without a namespace filter.
C12_GetClusterScopedByName ==
    (last.op = "Get") =>
        /\ last.ns = namespaced(last.path).ns
        /\ last.name = namespaced(last.path).name
        /\ (last.auth = "deny") => (last.err[2] = "get")
        /\ (/\ last.auth = "allow"
            /\ panicked = NoPanic
            /\ (last.ns = clusterScope \/ IndexOfSep(last.path) = 0))
              => (last.query = "Get")

\* C13: a permitted List whose kind resolves lists scope-wide when the
\* namespace is the cluster-scope sentinel and otherwise lists filtered to
\* the given namespace, also when the lookup was remapped to the
\* all-namespaces factory; the selector reaches the lister unmodified.
C13_ListScopeAndSelector ==
    (last.op = "List" /\ last.auth = "allow" /\ panicked = NoPanic) =>
        /\ last.qsel = last.sel
        /\ IF last.ns = clusterScope
           THEN last.query = "List"
           ELSE last.query = "ByNamespace.List" /\ last.qns = last.ns

\* a List of namespace ns1 served by the all-namespaces factory
C13_Witness ==
    /\ last.op = "List"
    /\ last.auth = "allow"
    /\ panicked = NoPanic
    /\ last.ns = <<"ns1">>
    /\ last.sel = "app=x"
    /\ last.fac # 0
    /\ last.constructed = 0
    /\ facs[last.fac].ns = allNamespaces
    /\ last.query = "ByNamespace.List"
    /\ last.qns = <<"ns1">>

----------------------------------------------------------------------------
(* Further claims about the pure helpers (SpecPure) *)

NumSeps(s) == Cardinality({i \in 1..Len(s) : s[i] = Slash})

\* C15: toGVR maps every three-segment identifier "g/v/r" to group g,
\* version v, resource r, and every two-segment identifier "v/r" to the
\* empty group, version v, resource r.
C15_ToGVRSegments ==
    (pcall.fn = "toGVR") =>
        LET o == pcall.out
        IN  /\ (NumSeps(pcall.s) = 2) =>
                   /\ o.ok
                   /\ pcall.s = o.Group \o <<Slash>> \o o.Version
                                    \o <<Slash>> \o o.Resource
            /\ (NumSeps(pcall.s) = 1) =>
                   /\ o.ok
                   /\ o.Group = <<>>
                   /\ pcall.s = o.Version \o <<Slash>> \o o.Resource

C15_Witness ==
    /\ pcall.fn = "toGVR"
    /\ pcall.s = <<"a", Slash, "b", Slash, "a">>
    /\ pcall.out.ok
    /\ pcall.out.Group = <<"a">>
    /\ pcall.out.Version = <<"b">>
    /\ pcall.out.Resource = <<"a">>

\* t is b without the separators at its two ends
IsTrimOf(t, b) ==
    /\ (t # <<>>) => (t[1] # Slash /\ t[Len(t)] # Slash)
    /\ \E l \in 0..Len(b) :
          /\ l + Len(t) <= Len(b)
          /\ SubSeq(b, l+1, l+Len(t)) = t
          /\ \A k \in 1..l : b[k] = Slash
          /\ \A k \in (l+Len(t)+1)..Len(b) : b[k] = Slash

\* C16: namespaced returns as name everything after the final "/" and as
\* namespace everything before it with "/" trimmed from both ends; a string
\* without "/" yields the empty namespace and the whole string as name.
C16_NamespacedSplitsAtLastSep ==
    (pcall.fn = "namespaced") =>
        LET s == pcall.s
            o == pcall.out
        IN  IF NumSeps(s) = 0
            THEN o.ns = <<>> /\ o.name = s
            ELSE \E i \in 1..Len(s) :
                    /\ s[i] = Slash
                    /\ \A j \in (i+1)..Len(s) : s[j] # Slash
                    /\ o.name = SubSeq(s, i+1, Len(s))
                    /\ IsTrimOf(o.ns, SubSeq(s, 1, i-1))

C16_Witness ==
    /\ pcall.fn = "namespaced"
    /\ pcall.s = <<Slash, "a", Slash, Slash, "b">>
    /\ pcall.out.ns = <<"a">>
    /\ pcall.out.name = <<"b">>

----------------------------------------------------------------------------
(* Further claims about the scope map (SpecScope) *)

C20_Step ==
    (last'.op \in EnsureOps) =>
        /\ last'.constructed <= 2
        /\ last'.preloads = last'.constructed
        /\ Len(facs') = Len(facs) + last'.constructed
        /\ Cardinality(DOMAIN factories') =
               Cardinality(DOMAIN factories) + last'.constructed

WarmupKinds == {toGVR(g) : g \in {GvrPods, GvrCRD, GvrClusterRoles, GvrRoles}}

\* C17: when an ensure constructs a new factory, the factory handed back
\* already has the four warm-up kinds (pods, custom resource definitions,
\* cluster roles, roles) requested against it and started, and no warm-up
\* failure reaches the caller.
C17_ReturnedSetIsWarm ==
    (/\ last.op \in EnsureOps
     /\ last.constructed > 0
     /\ last.fac # 0
     /\ panicked = NoPanic) =>
        /\ last.err = NoErr
        /\ \A g \in WarmupKinds :
              /\ g \in DOMAIN facs[last.fac].informers
              /\ facs[last.fac].informers[g].started

\* C14: every informer started by an operation of the Factory runs on the
\* one shared stop channel: once Terminate has run, every started informer
\* is stopped, whichever operation started it.
C14_TasksStopWithSharedSignal ==
    (stopChan = "nil") =>
        \A id \in DOMAIN facs : \A g \in DOMAIN facs[id].informers :
            facs[id].informers[g].started => Stopped(facs[id].informers[g])

----------------------------------------------------------------------------
(* Concurrent callers (SpecRace) *)

\* C18: when two callers run ensureFactory at the same time for the same
\* key and the key is not in the scope map, then under every interleaving
\* exactly one factory is constructed for the key and both callers are
\* handed that factory.
C18_OneSetForConcurrentEnsure ==
    (/\ \A c \in Callers : callers[c].pc = "done" /\ callers[c].absent
     /\ callers["c1"].key = callers["c2"].key) =>
        /\ callers["c1"].fac = callers["c2"].fac
        /\ Cardinality({i \in DOMAIN facs :
                           facs[i].ns = callers["c1"].key}) = 1

----------------------------------------------------------------------------
(* Registered informers (SpecScope) *)

\* C21: between operations and before Terminate, every informer registered
\* in a factory the scope map holds has been started on the Factory's
\* stop channel, also after Debug and Show: no informer is registered and
\* never started.
C21_RegisteredInformersStarted ==
    (stopChan = "chan" /\ ~ chanClosed /\ panicked = NoPanic) =>
        \A k \in DOMAIN factories :
            \A g \in DOMAIN facs[factories[k]].informers :
                /\ facs[factories[k]].informers[g].started
                /\ facs[factories[k]].informers[g].ch = "chan"

====
